---- MODULE Spec2Model ----
(***************************************************************************)
(* Model of utf8console.h: the streaming UTF-8 decoder utf8_on_wide_out    *)
(* (a std::streambuf writing wide units to a wrapped std::wstreambuf) and  *)
(* the scope guard con_transcoder that installs it on std::cout/std::cerr. *)
(*                                                                         *)
(* Bytes are the integers 0..255, wide units and code points are naturals. *)
(* The bit tests of the source are written arithmetically:                 *)
(*   (ch & 0x80) == 0      is  ch < 128                                    *)
(*   (ch & 0xC0) == 0x80   is  ch \div 64 = 2                              *)
(*   (ch & 0xE0) == 0xC0   is  ch \div 32 = 6                              *)
(*   (ch & 0xF0) == 0xE0   is  ch \div 16 = 14                             *)
(*   (ch & 0xF8) == 0xF0   is  ch \div 8  = 30                             *)
(*   ch & 0x3F             is  ch % 64      (and so on for 0x1F, 0x0F, 7)  *)
(*   point << 6            is  (point % 2^26) * 64   (uint32_t)            *)
(*   point >> 10           is  point \div 1024                             *)
(***************************************************************************)
EXTENDS Integers, Sequences, FiniteSets, TLC

(***************************************************************************)
(* Bounds of the model.                                                    *)
(***************************************************************************)
\* total number of bytes handed to the decoder in one behaviour of Spec
MaxFed == 4
\* number of calls in one behaviour in which the wrapped sink rejects a unit
MaxFail == 1
\* number of code points of the text written in one behaviour of TextSpec
MaxText == 2
\* number of con_transcoder objects in one behaviour of GuardSpec
MaxGuards == 3
\* number of moves of con_transcoder objects in one behaviour of GuardSpec
MaxMoves == 1
\* number of threads that construct a con_transcoder in one behaviour of
\* ThreadSpec
MaxThreads == 2

(***************************************************************************)
(* The platform.  wsize is sizeof(wchar_t): 2 on the translating target    *)
(* (_WIN32, where wint_t is a 16-bit unsigned short and WEOF is 0xFFFF),   *)
(* 4 elsewhere (wint_t is 32 bits wide and WEOF is 0xFFFFFFFF).            *)
(***************************************************************************)
WcharSizes == {2, 4}

\* std::char_traits<char>::eof()
EOF == -1

\* std::char_traits<wchar_t>::eof(), i.e. WEOF, as a value of wint_t: 0xFFFF
\* where wint_t has 16 bits; where it has 32 bits the pattern 0xFFFFFFFF, which
\* is written here as the signed integer of the same bits
weof(w) == IF w = 2 THEN 65535 ELSE -1

\* the conversion of the argument of output() to wtraits_type::int_type and
\* wtraits_type::to_char_type() on it: the value modulo the unit's width (no
\* value of the decoder reaches 2^31, so 32 bits leave it as it is)
to_char_type(w, v) == IF w = 2 THEN v % 65536 ELSE v

\* wtraits_type::to_int_type(), which sputc returns for a unit it stored
to_int_type(w, u) == u

\* point << 6 on uint32_t
shl6(point) == (point % 67108864) * 64

(***************************************************************************)
(* utf8_on_wide_out::output.  `offered` is the list of the units this call *)
(* of xsputn/overflow has passed to m_out->sputc so far, each with whether *)
(* the sink stored it; failAt is the environment's choice of the sputc of  *)
(* this call that the sink rejects (0: none).  sputc returns eof when it   *)
(* rejects the unit and to_int_type(unit) when it stored it.               *)
(***************************************************************************)
sputc(w, failAt, offered, u) ==
    LET rejected == (Len(offered) + 1 = failAt)
    IN  [offered |-> Append(offered, [u |-> u, ok |-> ~rejected]),
         rejected |-> rejected,
         ret |-> IF rejected THEN weof(w) ELSE to_int_type(w, u)]

output(w, failAt, offered, ch) ==
    LET r == sputc(w, failAt, offered, to_char_type(w, ch))
    IN  [offered |-> r.offered, rejected |-> r.rejected, ret |-> (r.ret # weof(w))]

(***************************************************************************)
(* utf8_on_wide_out::output_raw.  The loop state st is                     *)
(*   start    number of bytes read so far (start - first)                  *)
(*   left     the local copy of the pending counter                        *)
(*   point    the local copy of the accumulator                            *)
(*   offered  the units passed to the sink so far                          *)
(*   failByte the 1-based index of the byte during which the sink rejected *)
(*            a unit (0: none)                                             *)
(*   per      for each byte read: the byte b, the value l of left before   *)
(*            it, and the number n of units the sink stored during it      *)
(* Each of ascii, emit and step yields the next loop state and `go`:       *)
(* FALSE is a `break`, TRUE the next iteration.                            *)
(***************************************************************************)
Stored(offered) == SelectSeq(offered, LAMBDA o : o.ok)

Units(offered) == [i \in 1..Len(offered) |-> offered[i].u]

Offer(st, o) ==
    [st EXCEPT !.offered = o.offered,
               !.failByte = IF o.rejected THEN st.start ELSE @]

\* ascii without `left = -1`
ascii_noreset(w, failAt, ch, st) ==
    LET o == output(w, failAt, st.offered, ch)
    IN  [st |-> Offer(st, o), go |-> o.ret]

\* ascii with `continue` whatever output() returns
ascii_nobreak(w, failAt, ch, st) ==
    LET s == [st EXCEPT !.left = -1]
        o == output(w, failAt, s.offered, ch)
    IN  [st |-> Offer(s, o), go |-> TRUE]

\* lines 107-112: the branch of a byte 0xxxxxxx
ascii(w, failAt, ch, st) ==
    LET s == [st EXCEPT !.left = -1]
        o == output(w, failAt, s.offered, ch)
    IN  [st |-> Offer(s, o), go |-> o.ret]

\* classify with `point << 5` for `point << 6`
classify_shift5(ch, st) ==
    IF ch \div 64 = 2 /\ st.left > 0
    THEN [st EXCEPT !.point = (ch % 64) + (shl6(st.point) \div 2),
                    !.left = st.left - 1]
    ELSE IF ch \div 32 = 6  THEN [st EXCEPT !.point = ch % 32, !.left = 1]
    ELSE IF ch \div 16 = 14 THEN [st EXCEPT !.point = ch % 16, !.left = 2]
    ELSE IF ch \div 8 = 30  THEN [st EXCEPT !.point = ch % 8, !.left = 3]
    ELSE [st EXCEPT !.left = -1]

\* classify folding a continuation byte whatever `left` is
classify_anycont(ch, st) ==
    IF ch \div 64 = 2
    THEN [st EXCEPT !.point = (ch % 64) + shl6(st.point),
                    !.left = st.left - 1]
    ELSE IF ch \div 32 = 6  THEN [st EXCEPT !.point = ch % 32, !.left = 1]
    ELSE IF ch \div 16 = 14 THEN [st EXCEPT !.point = ch % 16, !.left = 2]
    ELSE IF ch \div 8 = 30  THEN [st EXCEPT !.point = ch % 8, !.left = 3]
    ELSE [st EXCEPT !.left = -1]

\* classify with a lead byte announcing one continuation byte too few
classify_short(ch, st) ==
    IF ch \div 64 = 2 /\ st.left > 0
    THEN [st EXCEPT !.point = (ch % 64) + shl6(st.point),
                    !.left = st.left - 1]
    ELSE IF ch \div 32 = 6  THEN [st EXCEPT !.point = ch % 32, !.left = 1]
    ELSE IF ch \div 16 = 14 THEN [st EXCEPT !.point = ch % 16, !.left = 1]
    ELSE IF ch \div 8 = 30  THEN [st EXCEPT !.point = ch % 8, !.left = 2]
    ELSE [st EXCEPT !.left = -1]

\* classify with a lead byte that leaves the count of a sequence in progress
\* as it is
classify_keepcount(ch, st) ==
    LET keep(n) == IF st.left > 0 THEN st.left ELSE n
    IN  IF ch \div 64 = 2 /\ st.left > 0
        THEN [st EXCEPT !.point = (ch % 64) + shl6(st.point),
                        !.left = st.left - 1]
        ELSE IF ch \div 32 = 6  THEN [st EXCEPT !.point = ch % 32, !.left = keep(1)]
        ELSE IF ch \div 16 = 14 THEN [st EXCEPT !.point = ch % 16, !.left = keep(2)]
        ELSE IF ch \div 8 = 30  THEN [st EXCEPT !.point = ch % 8, !.left = keep(3)]
        ELSE [st EXCEPT !.left = -1]

\* lines 113-128: the branches of a byte 1xxxxxxx
classify(ch, st) ==
    IF ch \div 64 = 2 /\ st.left > 0
    THEN [st EXCEPT !.point = (ch % 64) + shl6(st.point),
                    !.left = st.left - 1]
    ELSE IF ch \div 32 = 6  THEN [st EXCEPT !.point = ch % 32, !.left = 1]
    ELSE IF ch \div 16 = 14 THEN [st EXCEPT !.point = ch % 16, !.left = 2]
    ELSE IF ch \div 8 = 30  THEN [st EXCEPT !.point = ch % 8, !.left = 3]
    ELSE [st EXCEPT !.left = -1]

\* emit without `point -= 0x10000`
emit_nosub(w, failAt, st) ==
    LET s == [st EXCEPT !.left = -1]
    IN  IF w >= 4 \/ s.point <= 55295 \/ (s.point >= 57344 /\ s.point <= 65535)
        THEN LET o == output(w, failAt, s.offered, s.point)
             IN  [st |-> Offer(s, o), go |-> o.ret]
        ELSE IF s.point >= 65536 /\ s.point <= 1114111
        THEN LET hi == output(w, failAt, s.offered, (s.point \div 1024) + 55296)
                 s3 == Offer(s, hi)
                 lo == output(w, failAt, s3.offered, (s.point % 1024) + 56320)
             IN  IF ~hi.ret THEN [st |-> s3, go |-> FALSE]
                 ELSE [st |-> Offer(s3, lo), go |-> lo.ret]
        ELSE [st |-> s, go |-> TRUE]

\* emit writing every value up to 0xFFFF as one unit
emit_anybmp(w, failAt, st) ==
    LET s == [st EXCEPT !.left = -1]
    IN  IF w >= 4 \/ s.point <= 65535
        THEN LET o == output(w, failAt, s.offered, s.point)
             IN  [st |-> Offer(s, o), go |-> o.ret]
        ELSE IF s.point >= 65536 /\ s.point <= 1114111
        THEN LET s2 == [s EXCEPT !.point = s.point - 65536]
                 hi == output(w, failAt, s2.offered, (s2.point \div 1024) + 55296)
                 s3 == Offer(s2, hi)
                 lo == output(w, failAt, s3.offered, (s2.point % 1024) + 56320)
             IN  IF ~hi.ret THEN [st |-> s3, go |-> FALSE]
                 ELSE [st |-> Offer(s3, lo), go |-> lo.ret]
        ELSE [st |-> s, go |-> TRUE]

\* emit without `left = -1`
emit_noreset(w, failAt, st) ==
    LET s == st
    IN  IF w >= 4 \/ s.point <= 55295 \/ (s.point >= 57344 /\ s.point <= 65535)
        THEN LET o == output(w, failAt, s.offered, s.point)
             IN  [st |-> Offer(s, o), go |-> o.ret]
        ELSE IF s.point >= 65536 /\ s.point <= 1114111
        THEN LET s2 == [s EXCEPT !.point = s.point - 65536]
                 hi == output(w, failAt, s2.offered, (s2.point \div 1024) + 55296)
                 s3 == Offer(s2, hi)
                 lo == output(w, failAt, s3.offered, (s2.point % 1024) + 56320)
             IN  IF ~hi.ret THEN [st |-> s3, go |-> FALSE]
                 ELSE [st |-> Offer(s3, lo), go |-> lo.ret]
        ELSE [st |-> s, go |-> TRUE]

\* lines 129-140: the body of `if (left == 0)`
emit(w, failAt, st) ==
    LET s == [st EXCEPT !.left = -1]
    IN  IF w >= 4 \/ s.point <= 55295 \/ (s.point >= 57344 /\ s.point <= 65535)
        THEN LET o == output(w, failAt, s.offered, s.point)
             IN  [st |-> Offer(s, o), go |-> o.ret]
        ELSE IF s.point >= 65536 /\ s.point <= 1114111
        THEN LET s2 == [s EXCEPT !.point = s.point - 65536]
                 hi == output(w, failAt, s2.offered, (s2.point \div 1024) + 55296)
                 s3 == Offer(s2, hi)
                 lo == output(w, failAt, s3.offered, (s2.point % 1024) + 56320)
             IN  IF ~hi.ret THEN [st |-> s3, go |-> FALSE]
                 ELSE [st |-> Offer(s3, lo), go |-> lo.ret]
        ELSE [st |-> s, go |-> TRUE]

\* lines 106-140: one iteration of the loop on the byte ch, already read
step(w, failAt, ch, st) ==
    IF ch < 128 THEN ascii(w, failAt, ch, st)
    ELSE LET s == classify(ch, st)
         IN  IF s.left = 0 THEN emit(w, failAt, s) ELSE [st |-> s, go |-> TRUE]

\* lines 105-141: while (start != end) { ch = *start++; ... }
RECURSIVE loop(_, _, _, _)
loop(w, failAt, buf, st) ==
    IF st.start = Len(buf) THEN st
    ELSE LET ch == buf[st.start + 1]
             r == step(w, failAt, ch, [st EXCEPT !.start = @ + 1])
             n == Len(Stored(r.st.offered)) - Len(Stored(st.offered))
             s == [r.st EXCEPT !.per = Append(@, [b |-> ch, l |-> st.left, n |-> n])]
         IN  IF r.go THEN loop(w, failAt, buf, s) ELSE s

\* the decoder's fields are read into locals before the loop and written back
\* after it; the result is start - first
output_raw(w, failAt, buf, dec) ==
    LET st == loop(w, failAt, buf,
                   [start |-> 0, left |-> dec.left, point |-> dec.point,
                    offered |-> <<>>, failByte |-> 0, per |-> <<>>])
    IN  [left |-> st.left, point |-> st.point, ret |-> st.start,
         offered |-> st.offered, failByte |-> st.failByte, per |-> st.per]

\* utf8_on_wide_out::xsputn
xsputn(w, failAt, buf, dec) == output_raw(w, failAt, buf, dec)

\* utf8_on_wide_out::overflow; ch is a byte or EOF
overflow(w, failAt, ch, dec) ==
    IF ch # EOF
    THEN IF ch < 128
         THEN LET o == output(w, failAt, <<>>, ch)
              IN  [left |-> -1, point |-> dec.point,
                   ret |-> IF o.ret THEN 0 ELSE EOF,
                   offered |-> o.offered,
                   failByte |-> IF o.rejected THEN 1 ELSE 0,
                   per |-> <<[b |-> ch, l |-> dec.left,
                              n |-> Len(Stored(o.offered))]>>]
         ELSE LET r == output_raw(w, failAt, <<ch>>, dec)
              IN  [r EXCEPT !.ret = IF r.ret = 1 THEN 0 ELSE EOF]
    ELSE [left |-> dec.left, point |-> dec.point, ret |-> 0,
          offered |-> <<>>, failByte |-> 0, per |-> <<>>]

(***************************************************************************)
(* UTF-8 and UTF-16 as the standards define them: what a text is supposed  *)
(* to look like on the way in and on the way out.                          *)
(***************************************************************************)
Utf8(p) ==
    IF p < 128 THEN <<p>>
    ELSE IF p < 2048 THEN <<192 + (p \div 64), 128 + (p % 64)>>
    ELSE IF p < 65536
    THEN <<224 + (p \div 4096), 128 + ((p \div 64) % 64), 128 + (p % 64)>>
    ELSE <<240 + (p \div 262144), 128 + ((p \div 4096) % 64),
           128 + ((p \div 64) % 64), 128 + (p % 64)>>

Wide(w, p) ==
    IF w >= 4 \/ p < 65536 THEN <<p>>
    ELSE <<((p - 65536) \div 1024) + 55296, ((p - 65536) % 1024) + 56320>>

RECURSIVE Utf8Text(_)
Utf8Text(t) == IF t = <<>> THEN <<>> ELSE Utf8(Head(t)) \o Utf8Text(Tail(t))

RECURSIVE WideText(_, _)
WideText(w, t) ==
    IF t = <<>> THEN <<>> ELSE Wide(w, Head(t)) \o WideText(w, Tail(t))

(***************************************************************************)
(* Inputs.                                                                 *)
(***************************************************************************)
\* the bytes Spec writes: an ASCII byte, two continuation bytes, a lead byte
\* of each length (0xC2, 0xED, 0xEF, 0xF4) and the invalid byte 0xF8
Bytes == {65, 128, 191, 194, 237, 239, 244, 248}

Buffers(n) == UNION {[1..k -> Bytes] : k \in 0..n}

\* the code points TextSpec writes: the ends of every range the decoder tells
\* apart, and the code points of the examples
CodePoints == {0, 65, 128, 2047, 2048, 19990, 55295, 57344, 65535,
               65536, 128512, 1114111}

\* "Hello, " U+4E16 U+754C "!"
Hello == <<72, 101, 108, 108, 111, 44, 32, 19990, 30028, 33>>

Texts == UNION {[1..k -> CodePoints] : k \in 1..MaxText} \cup {Hello}

\* values the uninitialised member `point` may hold after construction (two
\* of them: all bits clear, and the 25 low bits set)
Indeterminate == {0, 33554431}

(***************************************************************************)
(* The state of one decoder and of the sink it wraps.                      *)
(*   wsize   sizeof(wchar_t) of the build                                  *)
(*   left    utf8_on_wide_out::left                                        *)
(*   point   utf8_on_wide_out::point                                       *)
(*   m_out   the units the wrapped sink has stored                         *)
(*   fed     the bytes the decoder has read, each with the value of left   *)
(*           before it and the number of units stored during it            *)
(*   last    the last call: op, count (bytes passed), ret (its result),    *)
(*           read (bytes read), offered (units passed to sputc), failByte, *)
(*           before (Len(m_out) at entry)                                  *)
(*   nfail   the number of calls in which the sink rejected a unit         *)
(*   text    TextSpec: the code points the application writes              *)
(*   tape    TextSpec: their UTF-8 bytes not yet accepted by a call        *)
(***************************************************************************)
VARIABLES wsize, left, point, m_out, fed, last, nfail, text, tape

dvars == <<wsize, left, point, m_out, fed, last, nfail, text, tape>>

(***************************************************************************)
(* The state of the streams and of the con_transcoder objects.  A stream   *)
(* buffer pointer is a natural number: NULL, the buffers std::cout and     *)
(* std::cerr have at program start, or a utf8_on_wide_out made by `new`.   *)
(*   translate  utf8con::translate of the build                            *)
(*   prepared   the static flag of the constructor                         *)
(*   console    the number of runs of prepare_console                      *)
(*   cout, cerr std::cout.rdbuf(), std::cerr.rdbuf()                       *)
(*   decoders   the utf8_on_wide_out objects made so far, in the order of  *)
(*              their making, each as the wide stream whose buffer it      *)
(*              wraps; the i-th has the pointer value CerrBuf + i          *)
(*   guards     the con_transcoder objects: st is "unborn", "alive" or     *)
(*              "dead"                                                     *)
(*   hist       the operations so far, each with the buffers of the two    *)
(*              streams before it and the calls it made, in order          *)
(*   dirty      for each buffer the streams have at program start: whether *)
(*              it holds bytes written to it and not yet flushed           *)
(***************************************************************************)
VARIABLES translate, prepared, console, cout, cerr, decoders, guards, hist,
          dirty

gvars == <<translate, prepared, console, cout, cerr, decoders, guards, hist,
           dirty>>

(***************************************************************************)
(* The threads that run the constructor at the same time (ThreadSpec).     *)
(*   pc    the statement of con_transcoder() each thread is about to run   *)
(*   seen  the value each thread has read from `prepared` at line 154      *)
(***************************************************************************)
VARIABLES pc, seen

tvars == <<pc, seen>>

vars == <<dvars, gvars, tvars>>

NULL == 0
CoutBuf == 1
CerrBuf == 2

Guards == 1..MaxGuards

Threads == 1..MaxThreads

\* the utf8_on_wide_out objects the application has installed by itself, with
\* std::cout.rdbuf(new utf8_on_wide_out(std::wcout.rdbuf())) and the like, on
\* the streams of `pre` before it makes its first con_transcoder
AppDecoders(pre) ==
    (IF "cout" \in pre THEN <<"wcout">> ELSE <<>>)
        \o (IF "cerr" \in pre THEN <<"wcerr">> ELSE <<>>)

\* the process before its first con_transcoder
GStart(pre) ==
    /\ prepared = FALSE
    /\ console = 0
    /\ cout = IF "cout" \in pre THEN CerrBuf + 1 ELSE CoutBuf
    /\ cerr = IF "cerr" \in pre THEN CerrBuf + Len(AppDecoders(pre)) ELSE CerrBuf
    /\ decoders = AppDecoders(pre)
    /\ guards = [g \in Guards |-> [st |-> "unborn", m_coutBuf |-> NULL,
                                   m_cerrBuf |-> NULL]]
    /\ hist = <<>>
    /\ dirty = [b \in {CoutBuf, CerrBuf} |-> FALSE]
    /\ pc = [t \in Threads |-> "idle"]
    /\ seen = [t \in Threads |-> FALSE]

GInit == GStart({})

NoCall == [op |-> "none", count |-> 0, ret |-> 0, read |-> 0,
           offered |-> <<>>, failByte |-> 0, before |-> 0]

DInit ==
    /\ left = -1
    /\ point \in Indeterminate
    /\ m_out = <<>>
    /\ fed = <<>>
    /\ last = NoCall
    /\ nfail = 0

\* the state after a call with result r
Return(op, count, r) ==
    /\ left' = r.left
    /\ point' = r.point
    /\ m_out' = m_out \o Units(Stored(r.offered))
    /\ fed' = fed \o r.per
    /\ last' = [op |-> op, count |-> count, ret |-> r.ret, read |-> Len(r.per),
                offered |-> r.offered, failByte |-> r.failByte,
                before |-> Len(m_out)]
    /\ nfail' = IF r.failByte # 0 THEN nfail + 1 ELSE nfail
    /\ UNCHANGED wsize

Dec == [left |-> left, point |-> point]

\* the sink may reject any one of the units a call passes to it: failAt ranges
\* over the units the call passes when none is rejected (0: none is)
FailAts(r0) == IF nfail < MaxFail THEN 1..Len(r0.offered) ELSE {}

\* the results a call of xsputn may have: r0 when the sink rejects nothing,
\* or the run in which it rejects the failAt-th unit passed to it
XsputnOutcomes(r0, buf) ==
    {r0} \cup {xsputn(wsize, failAt, buf, Dec) : failAt \in FailAts(r0)}

\* the same for a call of overflow
OverflowOutcomes(r0, ch) ==
    {r0} \cup {overflow(wsize, failAt, ch, Dec) : failAt \in FailAts(r0)}

\* a write of `buf` through std::streambuf::sputn
Xsputn ==
    \E buf \in Buffers(MaxFed - Len(fed)) :
        \E r \in XsputnOutcomes(xsputn(wsize, 0, buf, Dec), buf) :
            /\ Return("xsputn", Len(buf), r)
            /\ UNCHANGED <<text, tape>>

\* a write of one character (or of eof) through std::streambuf::overflow
Overflow ==
    /\ Len(fed) < MaxFed
    /\ \E ch \in Bytes \cup {EOF} :
        \E r \in OverflowOutcomes(overflow(wsize, 0, ch, Dec), ch) :
            /\ Return("overflow", 1, r)
            /\ UNCHANGED <<text, tape>>

\* Spec follows the decoder of the translating build, the one con_transcoder
\* installs; TextSpec follows both builds
Init == DInit /\ wsize = 2 /\ text = <<>> /\ tape = <<>> /\ GInit /\ translate = TRUE

Next ==
    \/ Xsputn /\ UNCHANGED <<gvars, tvars>>
    \/ Overflow /\ UNCHANGED <<gvars, tvars>>

Spec == Init /\ [][Next]_vars

(***************************************************************************)
(* ByteSpec: any bytes, cut into calls in any way, written on either build *)
(* to a sink that rejects nothing.                                         *)
(***************************************************************************)
Feed ==
    \E buf \in Buffers(MaxFed - Len(fed)) :
        /\ Return("xsputn", Len(buf), xsputn(wsize, 0, buf, Dec))
        /\ UNCHANGED <<text, tape>>

Put ==
    /\ Len(fed) < MaxFed
    /\ \E ch \in Bytes \cup {EOF} :
           /\ Return("overflow", 1, overflow(wsize, 0, ch, Dec))
           /\ UNCHANGED <<text, tape>>

ByteInit ==
    /\ DInit /\ wsize \in WcharSizes /\ text = <<>> /\ tape = <<>>
    /\ GInit /\ translate = (wsize = 2)

ByteNext ==
    \/ Feed /\ UNCHANGED <<gvars, tvars>>
    \/ Put /\ UNCHANGED <<gvars, tvars>>

ByteSpec == ByteInit /\ [][ByteNext]_vars

(***************************************************************************)
(* TextSpec: the application writes the UTF-8 encoding of a text, cut into *)
(* calls as it likes, to a sink that rejects nothing.  A call that accepts *)
(* fewer bytes than it was given leaves the rest on the tape.              *)
(***************************************************************************)
TextInit ==
    /\ DInit /\ wsize \in WcharSizes /\ text \in Texts /\ tape = Utf8Text(text)
    /\ GInit /\ translate = (wsize = 2)

WriteText ==
    \E k \in 1..Len(tape) :
        LET r == xsputn(wsize, 0, SubSeq(tape, 1, k), Dec)
        IN  /\ Return("xsputn", k, r)
            /\ tape' = SubSeq(tape, r.ret + 1, Len(tape))
            /\ UNCHANGED text

PutText ==
    /\ tape # <<>>
    /\ LET r == overflow(wsize, 0, Head(tape), Dec)
       IN  /\ Return("overflow", 1, r)
           /\ tape' = Tail(tape)
           /\ UNCHANGED text

TextNext ==
    \/ WriteText /\ UNCHANGED <<gvars, tvars>>
    \/ PutText /\ UNCHANGED <<gvars, tvars>>

TextSpec == TextInit /\ [][TextNext]_vars

(***************************************************************************)
(* con_transcoder.  The constructor works on a record c of the process     *)
(* state (translate, prepared, console, cout, cerr, decoders), of the      *)
(* members of the object under construction (m_coutBuf, m_cerrBuf) and of  *)
(* the calls made so far.                                                  *)
(***************************************************************************)
\* dynamic_cast<utf8_on_wide_out*>(buf) != nullptr
IsDecoder(ds, buf) == buf > CerrBuf /\ buf - CerrBuf <= Len(ds)

\* new utf8_on_wide_out(...): the pointer to the next object
New(ds) == CerrBuf + Len(ds) + 1

\* prepare without `prepared = true`
prepare_noflag(c) ==
    IF ~c.prepared
    THEN [c EXCEPT !.console = @ + 1,
                   !.calls = Append(@, <<"prepare_console">>)]
    ELSE c

\* lines 154-155
prepare(c) ==
    IF ~c.prepared
    THEN [c EXCEPT !.console = @ + 1, !.prepared = TRUE,
                   !.calls = Append(@, <<"prepare_console">>)]
    ELSE c

\* std::streambuf::pubsync() on the buffer buf: what the buffer holds is
\* written out (a utf8_on_wide_out holds nothing: it has no put area); the
\* call is recorded with whether the buffer held anything
Unflushed(c, buf) == buf \in DOMAIN c.dirty /\ c.dirty[buf]

pubsync(c, buf) ==
    [c EXCEPT !.calls = Append(@, <<"pubsync", buf, Unflushed(c, buf)>>),
              !.dirty = [b \in DOMAIN c.dirty |-> c.dirty[b] /\ b # buf]]

\* install_cout with the dynamic_cast test left out
install_cout_always(c) ==
    LET s == pubsync(c, c.cout)
    IN  [s EXCEPT !.calls = Append(@, <<"rdbuf", "cout", New(c.decoders)>>),
                  !.m_coutBuf = c.cout,
                  !.cout = New(c.decoders),
                  !.decoders = Append(@, "wcout")]

\* replace_cout with std::cout.rdbuf()->pubsync() after the replacement
replace_cout_syncafter(c) ==
    LET s == [c EXCEPT !.calls = Append(@, <<"rdbuf", "cout", New(c.decoders)>>),
                       !.m_coutBuf = c.cout,
                       !.cout = New(c.decoders),
                       !.decoders = Append(@, "wcout")]
    IN  pubsync(s, s.cout)

\* lines 157-158
replace_cout(c) ==
    LET s == pubsync(c, c.cout)
    IN  [s EXCEPT !.calls = Append(@, <<"rdbuf", "cout", New(c.decoders)>>),
                  !.m_coutBuf = c.cout,
                  !.cout = New(c.decoders),
                  !.decoders = Append(@, "wcout")]

\* lines 156-159
install_cout(c) ==
    IF ~IsDecoder(c.decoders, c.cout) THEN replace_cout(c) ELSE c

\* lines 161-162
replace_cerr(c) ==
    LET s == pubsync(c, c.cerr)
    IN  [s EXCEPT !.calls = Append(@, <<"rdbuf", "cerr", New(c.decoders)>>),
                  !.m_cerrBuf = c.cerr,
                  !.cerr = New(c.decoders),
                  !.decoders = Append(@, "wcerr")]

\* install_cerr installing only when std::cout was replaced too
install_cerr_coupled(c) ==
    IF ~IsDecoder(c.decoders, c.cerr) /\ c.m_coutBuf # NULL
    THEN replace_cerr(c) ELSE c

\* lines 160-163
install_cerr(c) ==
    IF ~IsDecoder(c.decoders, c.cerr) THEN replace_cerr(c) ELSE c

\* lines 151-164: con_transcoder::con_transcoder()
con_transcoder(c) ==
    IF ~c.translate THEN c
    ELSE install_cerr(install_cout(prepare(c)))

\* destroy without the tests of m_coutBuf and m_cerrBuf
destroy_unchecked(c, g) ==
    [c EXCEPT !.cout = g.m_coutBuf,
              !.cerr = g.m_cerrBuf,
              !.calls = @ \o <<<<"rdbuf", "cout", g.m_coutBuf>>,
                               <<"rdbuf", "cerr", g.m_cerrBuf>>>>]

\* lines 165-170: con_transcoder::~con_transcoder() of the object g
destroy(c, g) ==
    LET c1 == IF g.m_coutBuf # NULL
              THEN [c EXCEPT !.cout = g.m_coutBuf,
                             !.calls = Append(@, <<"rdbuf", "cout", g.m_coutBuf>>)]
              ELSE c
    IN  IF g.m_cerrBuf # NULL
        THEN [c1 EXCEPT !.cerr = g.m_cerrBuf,
                        !.calls = Append(@, <<"rdbuf", "cerr", g.m_cerrBuf>>)]
        ELSE c1

\* lines 171 and 173: the defaulted move constructor and move assignment
\* move each pointer member, which copies it; the result is the target's
\* members (the source keeps its own)
move(src) == [m_coutBuf |-> src.m_coutBuf, m_cerrBuf |-> src.m_cerrBuf]

Process ==
    [translate |-> translate, prepared |-> prepared, console |-> console,
     cout |-> cout, cerr |-> cerr, decoders |-> decoders, dirty |-> dirty,
     calls |-> <<>>, m_coutBuf |-> NULL, m_cerrBuf |-> NULL]

Event(op, g, h, c) ==
    [op |-> op, g |-> g, from |-> h, cout |-> cout, cerr |-> cerr,
     calls |-> c.calls]

After(c) ==
    /\ prepared' = c.prepared
    /\ console' = c.console
    /\ cout' = c.cout
    /\ cerr' = c.cerr
    /\ decoders' = c.decoders
    /\ dirty' = c.dirty
    /\ UNCHANGED translate

Moves == Len(SelectSeq(hist, LAMBDA e : e.op \in {"move", "assign"}))

\* the objects are numbered in the order in which they come to life
Unborn(g) ==
    /\ guards[g].st = "unborn"
    /\ \A h \in 1..(g - 1) : guards[h].st # "unborn"

\* con_transcoder g;  (also what make_utf8_output() returns)
Construct(g) ==
    /\ Unborn(g)
    /\ LET c == con_transcoder(Process)
       IN  /\ After(c)
           /\ guards' = [guards EXCEPT ![g] = [st |-> "alive",
                                              m_coutBuf |-> c.m_coutBuf,
                                              m_cerrBuf |-> c.m_cerrBuf]]
           /\ hist' = Append(hist, Event("ctor", g, 0, c))

\* the end of the lifetime of g
Destroy(g) ==
    /\ guards[g].st = "alive"
    /\ LET c == destroy(Process, guards[g])
       IN  /\ After(c)
           /\ guards' = [guards EXCEPT ![g].st = "dead"]
           /\ hist' = Append(hist, Event("dtor", g, 0, c))

\* con_transcoder g(std::move(h));
MoveConstruct(g, h) ==
    /\ Unborn(g) /\ guards[h].st = "alive"
    /\ Moves < MaxMoves
    /\ guards' = [guards EXCEPT ![g] = [st |-> "alive"] @@ move(guards[h])]
    /\ hist' = Append(hist, Event("move", g, h, Process))
    /\ UNCHANGED <<translate, prepared, console, cout, cerr, decoders, dirty>>

\* g = std::move(h);
MoveAssign(g, h) ==
    /\ g # h /\ guards[g].st = "alive" /\ guards[h].st = "alive"
    /\ Moves < MaxMoves
    /\ guards' = [guards EXCEPT ![g] = [st |-> "alive"] @@ move(guards[h])]
    /\ hist' = Append(hist, Event("assign", g, h, Process))
    /\ UNCHANGED <<translate, prepared, console, cout, cerr, decoders, dirty>>

\* the application writes to std::cout or std::cerr: while the stream has the
\* buffer of program start, the bytes stay in that buffer until it is flushed
Write(stream) ==
    LET buf == IF stream = "cout" THEN cout ELSE cerr
    IN  /\ buf \in DOMAIN dirty /\ ~dirty[buf]
        /\ dirty' = [dirty EXCEPT ![buf] = TRUE]
        /\ UNCHANGED <<translate, prepared, console, cout, cerr, decoders,
                       guards, hist>>

GuardInit ==
    /\ DInit /\ point = 0 /\ text = <<>> /\ tape = <<>>
    /\ GInit
    /\ translate \in BOOLEAN
    /\ wsize = IF translate THEN 2 ELSE 4

GuardNext ==
    \/ \E g \in Guards : Construct(g) /\ UNCHANGED <<dvars, tvars>>
    \/ \E g \in Guards : Destroy(g) /\ UNCHANGED <<dvars, tvars>>
    \/ \E g, h \in Guards : MoveConstruct(g, h) /\ UNCHANGED <<dvars, tvars>>
    \/ \E g, h \in Guards : MoveAssign(g, h) /\ UNCHANGED <<dvars, tvars>>

GuardSpec == GuardInit /\ [][GuardNext]_vars

(***************************************************************************)
(* StreamSpec: con_transcoder objects made and destroyed in a process that *)
(* writes to its streams and may have installed a utf8_on_wide_out of its  *)
(* own on either of them before.                                           *)
(***************************************************************************)
StreamInit ==
    /\ DInit /\ point = 0 /\ text = <<>> /\ tape = <<>>
    /\ \E pre \in SUBSET {"cout", "cerr"} : GStart(pre)
    /\ translate \in BOOLEAN
    /\ wsize = IF translate THEN 2 ELSE 4

StreamNext ==
    \/ \E g \in Guards : Construct(g) /\ UNCHANGED <<dvars, tvars>>
    \/ \E g \in Guards : Destroy(g) /\ UNCHANGED <<dvars, tvars>>
    \/ \E stream \in {"cout", "cerr"} : Write(stream) /\ UNCHANGED <<dvars, tvars>>

StreamSpec == StreamInit /\ [][StreamNext]_vars

(***************************************************************************)
(* ThreadSpec: MaxThreads threads, each constructing one con_transcoder,   *)
(* thread t the object t, with nothing ordering them.  A thread runs the   *)
(* constructor statement by statement: the early return of line 153, the   *)
(* read of `prepared` at line 154, the call of prepare_console and the     *)
(* write `prepared = true` of line 155, the tests of lines 156 and 160 and  *)
(* the replacements of lines 157-158 and 161-162.  `prepared` is a plain   *)
(* bool: a read that nothing orders after another thread's write may still *)
(* yield the value from before that write.                                 *)
(***************************************************************************)
\* line 153
Enter(t) ==
    /\ pc[t] = "idle"
    /\ pc' = [pc EXCEPT ![t] = IF translate THEN "test" ELSE "done"]
    /\ guards' = IF translate THEN guards ELSE [guards EXCEPT ![t].st = "alive"]
    /\ UNCHANGED <<seen, translate, prepared, console, cout, cerr, decoders,
                   hist, dirty>>

\* line 154: if (!prepared)
TestPrepared(t) ==
    /\ pc[t] = "test"
    /\ \E v \in {prepared, FALSE} :
           /\ seen' = [seen EXCEPT ![t] = v]
           /\ pc' = [pc EXCEPT ![t] = IF v THEN "cout" ELSE "call"]
    /\ UNCHANGED gvars

\* line 155: prepare_console()
CallPrepare(t) ==
    /\ pc[t] = "call"
    /\ console' = console + 1
    /\ pc' = [pc EXCEPT ![t] = "set"]
    /\ UNCHANGED <<seen, translate, prepared, cout, cerr, decoders, guards,
                   hist, dirty>>

\* line 155: prepared = true
SetPrepared(t) ==
    /\ pc[t] = "set"
    /\ prepared' = TRUE
    /\ pc' = [pc EXCEPT ![t] = "cout"]
    /\ UNCHANGED <<seen, translate, console, cout, cerr, decoders, guards,
                   hist, dirty>>

\* the process and the members of the object of thread t
Mine(t) ==
    [Process EXCEPT !.m_coutBuf = guards[t].m_coutBuf,
                    !.m_cerrBuf = guards[t].m_cerrBuf]

\* line 156: if (!dynamic_cast<utf8_on_wide_out*>(std::cout.rdbuf()))
TestCout(t) ==
    /\ pc[t] = "cout"
    /\ pc' = [pc EXCEPT ![t] = IF ~IsDecoder(decoders, cout) THEN "cout_swap"
                                ELSE "cerr"]
    /\ UNCHANGED <<seen, gvars>>

\* lines 157-158
ReplaceCout(t) ==
    /\ pc[t] = "cout_swap"
    /\ LET c == replace_cout(Mine(t))
       IN  /\ After(c)
           /\ guards' = [guards EXCEPT ![t].m_coutBuf = c.m_coutBuf]
    /\ pc' = [pc EXCEPT ![t] = "cerr"]
    /\ UNCHANGED <<seen, hist>>

\* line 160: if (!dynamic_cast<utf8_on_wide_out*>(std::cerr.rdbuf()))
TestCerr(t) ==
    /\ pc[t] = "cerr"
    /\ pc' = [pc EXCEPT ![t] = IF ~IsDecoder(decoders, cerr) THEN "cerr_swap"
                                ELSE "done"]
    /\ guards' = IF ~IsDecoder(decoders, cerr) THEN guards
                 ELSE [guards EXCEPT ![t].st = "alive"]
    /\ UNCHANGED <<seen, translate, prepared, console, cout, cerr, decoders,
                   hist, dirty>>

\* lines 161-162
ReplaceCerr(t) ==
    /\ pc[t] = "cerr_swap"
    /\ LET c == replace_cerr(Mine(t))
       IN  /\ After(c)
           /\ guards' = [guards EXCEPT ![t].m_cerrBuf = c.m_cerrBuf,
                                       ![t].st = "alive"]
    /\ pc' = [pc EXCEPT ![t] = "done"]
    /\ UNCHANGED <<seen, hist>>

ThreadInit ==
    /\ DInit /\ point = 0 /\ text = <<>> /\ tape = <<>>
    /\ GInit
    /\ translate \in BOOLEAN
    /\ wsize = IF translate THEN 2 ELSE 4

ThreadNext ==
    \/ \E t \in Threads : Enter(t) /\ UNCHANGED dvars
    \/ \E t \in Threads : TestPrepared(t) /\ UNCHANGED dvars
    \/ \E t \in Threads : CallPrepare(t) /\ UNCHANGED dvars
    \/ \E t \in Threads : SetPrepared(t) /\ UNCHANGED dvars
    \/ \E t \in Threads : TestCout(t) /\ UNCHANGED dvars
    \/ \E t \in Threads : ReplaceCout(t) /\ UNCHANGED dvars
    \/ \E t \in Threads : TestCerr(t) /\ UNCHANGED dvars
    \/ \E t \in Threads : ReplaceCerr(t) /\ UNCHANGED dvars

ThreadSpec == ThreadInit /\ [][ThreadNext]_vars

(***************************************************************************)
(* Claims about the decoding of well-formed text (TextSpec).               *)
(***************************************************************************)
\* the number of bytes of the text before its k-th code point
Start(k) == Len(Utf8Text(SubSeq(text, 1, k - 1)))

\* the units the last call has put into the sink
LastStored == SubSeq(m_out, last.before + 1, Len(m_out))

OneBmp ==
    /\ Len(text) = 1
    /\ text[1] <= 55295 \/ (text[1] >= 57344 /\ text[1] <= 65535)

\* C1: a code point of [0,0xD7FF] or [0xE000,0xFFFF], written as its UTF-8
\* encoding in one call or cut at any byte boundary to an idle decoder whose
\* sink rejects nothing, puts exactly one unit into the sink, the code point,
\* and leaves the decoder idle; nothing is in the sink before the last byte.
C1_BmpOneUnit ==
    OneBmp =>
        /\ tape # <<>> => m_out = <<>>
        /\ tape = <<>> => (m_out = <<text[1]>> /\ left = -1)

C1_Witness ==
    /\ OneBmp /\ text[1] = 65535 /\ wsize = 2
    /\ tape = <<>> /\ last.count = 1 /\ Len(fed) = 3
    /\ m_out = <<65535>> /\ left = -1

OneAstral == Len(text) = 1 /\ text[1] >= 65536 /\ text[1] <= 1114111

\* C2: with 2-byte wide units, a code point p of [0x10000,0x10FFFF] written
\* as its 4 bytes, in one call or cut after 1, 2 or 3 bytes, puts exactly the
\* two units ((p-0x10000)>>10)+0xD800 and ((p-0x10000)&0x3FF)+0xDC00 into the
\* sink, in this order.
C2_SurrogatePair ==
    (OneAstral /\ wsize = 2) =>
        /\ tape # <<>> => m_out = <<>>
        /\ tape = <<>> =>
               m_out = <<((text[1] - 65536) \div 1024) + 55296,
                         ((text[1] - 65536) % 1024) + 56320>>

C2_Witness ==
    /\ OneAstral /\ text[1] = 1114111 /\ wsize = 2
    /\ tape = <<>> /\ last.count = 2 /\ last.before = 0
    /\ m_out = <<56319, 57343>>

\* C3: a text written as the concatenation of the UTF-8 encodings of its code
\* points, in a single call to an idle decoder whose sink rejects nothing,
\* puts the units of its code points into the sink in the order of the text.
C3_WholeTextInOrder ==
    (last.op = "xsputn" /\ last.before = 0 /\ Len(fed) = last.read
        /\ last.count = Len(Utf8Text(text)))
    => m_out = WideText(wsize, text)

\* C4: while a multi-byte sequence is in progress nothing is put into the
\* sink: of the n >= 2 bytes of a code point, bytes 1..n-1 store no unit and
\* leave the sequence in progress, and the n-th stores the code point's
\* units; a call of one byte stores accordingly nothing, or those units.
C4_EmitOnLastByteOnly ==
    \A k \in 1..Len(text) :
        LET n == Len(Utf8(text[k]))
        IN  \A j \in 1..n :
                LET i == Start(k) + j
                    units == IF j < n THEN <<>> ELSE Wide(wsize, text[k])
                IN  (n >= 2 /\ i <= Len(fed)) =>
                        /\ fed[i].n = Len(units)
                        /\ (i = Len(fed) /\ j < n) => left = n - j
                        /\ (i = Len(fed) /\ last.count = 1) => LastStored = units

C4_Witness ==
    /\ text = <<128512>> /\ wsize = 2 /\ tape = <<>>
    /\ last.op = "overflow" /\ last.count = 1 /\ last.before = 0
    /\ fed[1].n = 0 /\ fed[2].n = 0 /\ fed[3].n = 0 /\ fed[4].n = 2
    /\ [i \in 1..4 |-> fed[i].b] = <<240, 159, 152, 128>>
    /\ m_out = <<55357, 56832>>

\* the example of the specification: "Hello, " U+4E16 U+754C "!"
HelloDone ==
    /\ text = Hello /\ tape = <<>>
    /\ m_out = <<72, 101, 108, 108, 111, 44, 32, 19990, 30028, 33>>

(***************************************************************************)
(* Claims about malformed input and about a sink that rejects units (Spec, *)
(* and ByteSpec for C16, C17 and C19).                                     *)
(***************************************************************************)
\* the number of continuation bytes a lead byte announces (0: not a lead byte)
Announces(b) ==
    IF b \div 32 = 6 THEN 1 ELSE IF b \div 16 = 14 THEN 2
    ELSE IF b \div 8 = 30 THEN 3 ELSE 0

IsContinuation(b) == b \div 64 = 2

FedBytes(i, j) == [k \in 1..(j - i + 1) |-> fed[i + k - 1].b]

RECURSIVE StoredDuring(_, _)
StoredDuring(i, j) == IF i > j THEN 0 ELSE fed[i].n + StoredDuring(i + 1, j)

\* bytes i..j of fed are a lead byte, fewer continuation bytes than it
\* announces, and an ASCII byte
Truncated(i, j) ==
    /\ 1 <= i /\ i < j /\ j <= Len(fed)
    /\ Announces(fed[i].b) > j - i - 1
    /\ \A k \in (i + 1)..(j - 1) : IsContinuation(fed[k].b)
    /\ fed[j].b < 128

\* byte j of fed is a continuation byte that came with no sequence in progress
LoneContinuation(j) ==
    /\ 1 <= j /\ j <= Len(fed)
    /\ IsContinuation(fed[j].b) /\ fed[j].l = -1

\* code points with an encoding of each length, U+FFFF and both ends of the
\* range of the surrogate pairs among them
Probes == {65, 2047, 65535, 65536, 1114111}

\* what a decoder just constructed, with g in `point`, makes of the encoding
\* of p
Fresh(w, p, g) == output_raw(w, 0, Utf8(p), [left |-> -1, point |-> g])

\* a well-formed sequence written now is decoded as by a fresh decoder
DecodesAsFresh ==
    \A p \in Probes :
        LET now == output_raw(wsize, 0, Utf8(p), Dec)
        IN  /\ Units(now.offered) = Wide(wsize, p)
            /\ \A g \in Indeterminate :
                   LET fresh == Fresh(wsize, p, g)
                   IN  /\ now.offered = fresh.offered
                       /\ now.left = fresh.left
                       /\ now.ret = fresh.ret

\* the bytes after byte j of fed are the encoding of one code point, and the
\* sink has stored exactly its units during them
DecodedAfter(j) ==
    (j < Len(fed) /\ nfail = 0) =>
        \A p \in CodePoints :
            FedBytes(j + 1, Len(fed)) = Utf8(p) =>
                /\ StoredDuring(j + 1, Len(fed)) = Len(Wide(wsize, p))
                /\ SubSeq(m_out, Len(m_out) - Len(Wide(wsize, p)) + 1, Len(m_out))
                       = Wide(wsize, p)
                /\ left = -1

\* C5: a lead byte and fewer continuation bytes than it announces, followed
\* by an ASCII byte: the sink stores no unit during the truncated sequence
\* and (when it rejects nothing) the one unit of the ASCII byte; the decoder is
\* idle after the ASCII byte, and a well-formed sequence that follows is
\* decoded as by a fresh decoder.
C5_TruncatedThenAscii ==
    \A i \in 1..Len(fed) : \A j \in (i + 1)..Len(fed) :
        Truncated(i, j) =>
            /\ StoredDuring(i, j - 1) = 0
            /\ (j = Len(fed)) => (left = -1 /\ DecodesAsFresh)
            /\ nfail = 0 => (fed[j].n = 1 /\ m_out[StoredDuring(1, j)] = fed[j].b)
            /\ DecodedAfter(j)

C5_Witness ==
    /\ Len(fed) = 3 /\ Truncated(1, 3)
    /\ FedBytes(1, 3) = <<239, 191, 65>>
    /\ last.op = "xsputn" /\ last.count = 3
    /\ m_out = <<65>> /\ left = -1

\* C6: a continuation byte that comes while no sequence is in progress
\* stores nothing and leaves the decoder idle, and a well-formed sequence
\* that follows is decoded as by a fresh decoder.
C6_LoneContinuation ==
    \A j \in 1..Len(fed) :
        LoneContinuation(j) =>
            /\ fed[j].n = 0
            /\ (j = Len(fed)) => (left = -1 /\ DecodesAsFresh)
            /\ DecodedAfter(j)

C6_Witness ==
    /\ Len(fed) = 3 /\ LoneContinuation(1)
    /\ FedBytes(1, 3) = <<128, 194, 191>>
    /\ m_out = <<191>> /\ left = -1

\* C7: when the sink rejects a unit during a call, the call stops there: the
\* byte being processed is the last byte read, xsputn returns the number of
\* bytes up to and including it, and the rejected unit is the last unit the
\* call passes to the sink.
C7_StopAtRejection ==
    last.failByte # 0 =>
        /\ last.read = last.failByte
        /\ last.read <= last.count
        /\ last.op = "xsputn" => last.ret = last.failByte
        /\ last.offered # <<>>
        /\ \A k \in 1..Len(last.offered) :
               last.offered[k].ok <=> (k < Len(last.offered))
        /\ Len(m_out) = last.before + Len(last.offered) - 1

C7_Witness ==
    /\ last.op = "xsputn" /\ last.count = 3 /\ last.failByte = 2
    /\ last.ret = 2 /\ last.read = 2
    /\ FedBytes(1, 2) = <<65, 65>> /\ m_out = <<65>>

\* C8: every rejection by the sink is reported to the caller: xsputn returns
\* less than count, overflow returns eof.
C8_RejectionReported ==
    last.failByte # 0 =>
        /\ last.op = "xsputn" => last.ret < last.count
        /\ last.op = "overflow" => last.ret = EOF

\* what one xsputn call with all the bytes read so far makes of them, on a
\* decoder just constructed with g in `point`
OneCall(g) ==
    xsputn(wsize, 0, FedBytes(1, Len(fed)), [left |-> -1, point |-> g])

SameAsOneCall ==
    \A g \in Indeterminate :
        LET one == OneCall(g)
        IN  /\ Units(Stored(one.offered)) = m_out
            /\ one.left = left
            /\ left > 0 => one.point = point

\* C16: with a sink that rejects nothing, however the bytes have been cut
\* into xsputn buffers and overflow calls, the units in the sink and the
\* state of the decoder (left, and point while left > 0) are those that one
\* xsputn call with all the bytes gives.
C16_ChunkingInsensitive == nfail = 0 => SameAsOneCall

\* the same where no unit 0xFFFF has been written
SameAsOneCallExceptFFFF ==
    (nfail = 0 /\ \A i \in 1..Len(m_out) : m_out[i] # 65535) => SameAsOneCall

\* the payload bits of a lead byte
Payload(b) ==
    IF b \div 32 = 6 THEN b % 32 ELSE IF b \div 16 = 14 THEN b % 16 ELSE b % 8

\* bytes i..j of fed are a lead byte, fewer continuation bytes than it
\* announces, and a byte 11xxxxxx
Interrupted(i, j) ==
    /\ 1 <= i /\ i < j /\ j <= Len(fed)
    /\ Announces(fed[i].b) > j - i - 1
    /\ \A k \in (i + 1)..(j - 1) : IsContinuation(fed[k].b)
    /\ fed[j].b >= 192

\* C17: a lead byte and fewer continuation bytes than it announces, followed
\* by another lead byte: the sink stores no unit for the abandoned bytes nor
\* for the new lead byte; the new lead byte starts a sequence with its own
\* payload bits and its own count, and when that sequence is completed to the
\* encoding of a code point the sink stores exactly the units of this code
\* point.  Followed by a byte 11111xxx instead: nothing is stored and the
\* decoder is idle.
C17_CutShortByLead ==
    \A i \in 1..Len(fed) : \A j \in (i + 1)..Len(fed) :
        Interrupted(i, j) =>
            /\ fed[j].l = Announces(fed[i].b) - (j - i - 1)
            /\ StoredDuring(i, j) = 0
            /\ Announces(fed[j].b) > 0 =>
                   /\ j = Len(fed) =>
                          (left = Announces(fed[j].b) /\ point = Payload(fed[j].b))
                   /\ DecodedAfter(j - 1)
            /\ (Announces(fed[j].b) = 0 /\ j = Len(fed)) => left = -1

C17_Witness ==
    /\ Len(fed) = 4 /\ Interrupted(1, 3)
    /\ FedBytes(1, 4) = <<239, 191, 194, 128>>
    /\ fed[3].l = 1 /\ StoredDuring(1, 3) = 0
    /\ m_out = <<128>> /\ left = -1 /\ nfail = 0

\* C18: between calls `left` is -1, 1, 2 or 3, whatever the bytes and
\* whatever the sink rejects; and it is -1 when the last byte read had a unit
\* passed to the sink, stored or rejected.
C18_PendingRange ==
    /\ left \in {-1, 1, 2, 3}
    /\ (Len(fed) > 0 /\ fed[Len(fed)].n > 0) => left = -1
    /\ (last.read > 0 /\ last.failByte # 0) => left = -1

C18_Witness ==
    /\ Len(fed) = 4 /\ FedBytes(1, 4) = <<244, 128, 128, 128>>
    /\ fed[2].l = 3 /\ fed[3].l = 2 /\ fed[4].l = 1
    /\ last.offered = <<[u |-> 56256, ok |-> TRUE], [u |-> 56320, ok |-> FALSE]>>
    /\ last.failByte = last.read /\ last.read > 0
    /\ left = -1

IsHigh(u) == u >= 55296 /\ u <= 56319

IsLow(u) == u >= 56320 /\ u <= 57343

\* well-formed UTF-16
WellFormed16(units) ==
    \A k \in 1..Len(units) :
        /\ units[k] >= 0 /\ units[k] <= 65535
        /\ IsHigh(units[k]) => (k < Len(units) /\ IsLow(units[k + 1]))
        /\ IsLow(units[k]) => (k > 1 /\ IsHigh(units[k - 1]))

\* bytes i..j of fed are a lead byte and the continuation bytes it announces
Completed(i, j) ==
    /\ 1 <= i /\ i < j /\ j <= Len(fed)
    /\ Announces(fed[i].b) = j - i
    /\ \A k \in (i + 1)..j : IsContinuation(fed[k].b)

\* the value their payload bits spell
RECURSIVE Value(_, _)
Value(i, j) ==
    IF j = i THEN Payload(fed[i].b) ELSE Value(i, j - 1) * 64 + (fed[j].b % 64)

\* C19: with 2-byte wide units and a sink that rejects nothing, the units in
\* the sink are well-formed UTF-16 whatever the bytes: each at most 0xFFFF,
\* each of 0xD800..0xDBFF followed at once by one of 0xDC00..0xDFFF and none
\* of 0xDC00..0xDFFF anywhere else; a completed sequence whose value is in
\* 0xD800..0xDFFF or above 0x10FFFF stores nothing (stated the other way
\* round: a completed sequence that stores a unit has no such value).
C19_WellFormedUtf16 ==
    (wsize = 2 /\ nfail = 0) =>
        /\ WellFormed16(m_out)
        /\ \A i \in 1..Len(fed) : \A j \in (i + 1)..Len(fed) :
               (fed[j].n # 0 /\ Completed(i, j)) =>
                   LET v == Value(i, j)
                   IN  ~(v >= 55296 /\ v <= 57343) /\ v <= 1114111

C19_Witness ==
    /\ wsize = 2 /\ nfail = 0 /\ Len(fed) = 4
    /\ FedBytes(1, 4) = <<237, 191, 191, 65>>
    /\ Completed(1, 3) /\ Value(1, 3) = 57343 /\ fed[3].n = 0
    /\ m_out = <<65>>

(***************************************************************************)
(* Claims about con_transcoder (GuardSpec).                                *)
(***************************************************************************)
\* the k-th operation from the end of hist (0: the last one)
Ago(k) == hist[Len(hist) - k]

\* the last four operations: a constructed, b constructed, b destroyed, a
\* destroyed
Nested(a, b) ==
    /\ Len(hist) >= 4 /\ a # b
    /\ Ago(3).op = "ctor" /\ Ago(3).g = a
    /\ Ago(2).op = "ctor" /\ Ago(2).g = b
    /\ Ago(1).op = "dtor" /\ Ago(1).g = b
    /\ Ago(0).op = "dtor" /\ Ago(0).g = a

Replaces(e, stream) ==
    \E i \in 1..Len(e.calls) :
        e.calls[i][1] = "rdbuf" /\ e.calls[i][2] = stream

\* C9: on a translating platform a guard constructed while a stream has a
\* decoder installed installs nothing on that stream and remembers nothing
\* for it, so no guard ever remembers a decoder as the sink to restore; and
\* when a guard and then a second one are constructed, and the second and
\* then the first are destroyed, both streams have the buffers again that
\* they had before the first was constructed.
C9_NestedGuards ==
    translate =>
        /\ \A g \in Guards :
               /\ ~IsDecoder(decoders, guards[g].m_coutBuf)
               /\ ~IsDecoder(decoders, guards[g].m_cerrBuf)
        /\ (Len(hist) >= 1 /\ Ago(0).op = "ctor") =>
               /\ IsDecoder(decoders, Ago(0).cout) =>
                      /\ cout = Ago(0).cout
                      /\ guards[Ago(0).g].m_coutBuf = NULL
                      /\ ~Replaces(Ago(0), "cout")
               /\ IsDecoder(decoders, Ago(0).cerr) =>
                      /\ cerr = Ago(0).cerr
                      /\ guards[Ago(0).g].m_cerrBuf = NULL
                      /\ ~Replaces(Ago(0), "cerr")
        /\ \A a, b \in Guards :
               Nested(a, b) => (cout = Ago(3).cout /\ cerr = Ago(3).cerr)

C9_Witness ==
    /\ translate /\ Len(hist) = 4 /\ Nested(1, 2)
    /\ Replaces(Ago(3), "cout") /\ Replaces(Ago(3), "cerr")
    /\ IsDecoder(decoders, Ago(2).cout) /\ IsDecoder(decoders, Ago(2).cerr)
    /\ Ago(2).calls = <<>> /\ Len(decoders) = 2
    /\ cout = CoutBuf /\ cerr = CerrBuf

\* the guard g has been moved from, and not been assigned to since
MovedFrom(g) ==
    \E i \in 1..Len(hist) :
        /\ hist[i].op \in {"move", "assign"} /\ hist[i].from = g
        /\ \A j \in (i + 1)..Len(hist) :
               ~(hist[j].op = "assign" /\ hist[j].g = g)

\* C10: a guard that has been moved from restores nothing when it is
\* destroyed: its destructor leaves both streams as they are, so that a
\* stream stays redirected until the guard moved to is destroyed.
C10_MovedFromRestoresNothing ==
    (Len(hist) >= 1 /\ Ago(0).op = "dtor" /\ MovedFrom(Ago(0).g)) =>
        (cout = Ago(0).cout /\ cerr = Ago(0).cerr /\ Ago(0).calls = <<>>)

\* the operation e ran prepare_console
Prepares(e) ==
    \E k \in 1..Len(e.calls) : e.calls[k][1] = "prepare_console"

Constructions == SelectSeq(hist, LAMBDA e : e.op = "ctor")

\* C11: on a translating platform, however many guards are constructed one
\* after another, prepare_console runs exactly once: in the first
\* construction, and there as the first call, before any rdbuf() that
\* replaces the buffer of std::cout or std::cerr.
C11_PreparedOnce ==
    translate =>
        /\ console = IF Constructions = <<>> THEN 0 ELSE 1
        /\ \A i \in 1..Len(hist) :
               /\ Prepares(hist[i]) <=>
                      (hist[i].op = "ctor"
                          /\ \A k \in 1..(i - 1) : hist[k].op # "ctor")
               /\ Prepares(hist[i]) =>
                      /\ hist[i].calls[1] = <<"prepare_console">>
                      /\ \A k \in 2..Len(hist[i].calls) :
                             hist[i].calls[k][1] # "prepare_console"
                      /\ \A k \in 1..(i - 1) :
                             ~Replaces(hist[k], "cout") /\ ~Replaces(hist[k], "cerr")

C11_Witness ==
    /\ translate /\ Len(Constructions) = 3 /\ console = 1 /\ prepared
    /\ hist[1].op = "ctor" /\ hist[1].calls[1] = <<"prepare_console">>
    /\ Replaces(hist[1], "cout") /\ Replaces(hist[1], "cerr")
    /\ ~Prepares(Ago(0)) /\ Ago(0).op = "ctor"

\* no operation so far has replaced the buffer of a stream
NoSinkReplaced ==
    /\ cout = CoutBuf /\ cerr = CerrBuf
    /\ \A i \in 1..Len(hist) :
           ~Replaces(hist[i], "cout") /\ ~Replaces(hist[i], "cerr")

\* C12: on a non-translating platform the construction of a guard replaces
\* the buffer of neither std::cout nor std::cerr, prepare_console (which
\* imbues std::wcout and std::wcerr with the current locale) has run by the
\* time the construction returns, and the destruction of a guard replaces no
\* buffer.
C12_NonTranslatingPrepares ==
    ~translate =>
        /\ NoSinkReplaced
        /\ Constructions # <<>> => console >= 1

\* guards have been constructed and destroyed, and nothing else
OnlyMadeAndDestroyed ==
    \A i \in 1..Len(hist) : hist[i].op \in {"ctor", "dtor"}

SomeAlive == \E g \in Guards : guards[g].st = "alive"

BothRedirected == IsDecoder(decoders, cout) /\ IsDecoder(decoders, cerr)

BothOriginal == cout = CoutBuf /\ cerr = CerrBuf

\* every guard was destroyed when no guard constructed after it was alive
LastMadeFirstDestroyed ==
    \A i \in 1..Len(hist) : \A k \in 1..(i - 1) :
        (/\ hist[i].op = "dtor" /\ hist[k].op = "ctor" /\ hist[k].g # hist[i].g
         /\ \E m \in 1..(k - 1) : hist[m].op = "ctor" /\ hist[m].g = hist[i].g)
        => \E d \in (k + 1)..(i - 1) : hist[d].op = "dtor" /\ hist[d].g = hist[k].g

\* C20: on a translating platform, after any sequence of constructions and
\* destructions of guards, in any order: while a guard is alive std::cout
\* and std::cerr both have a decoder installed, and once all guards are
\* destroyed both have the buffers of program start.
C20_RedirectedWhileAlive ==
    (translate /\ OnlyMadeAndDestroyed) =>
        /\ SomeAlive => BothRedirected
        /\ (hist # <<>> /\ ~SomeAlive) => BothOriginal

\* C20, amended: the same, with the first part only for guards destroyed in
\* the reverse order of their construction.
C20_RedirectedWhileAliveNested ==
    (translate /\ OnlyMadeAndDestroyed) =>
        /\ (LastMadeFirstDestroyed /\ SomeAlive) => BothRedirected
        /\ (hist # <<>> /\ ~SomeAlive) => BothOriginal

C20_Witness ==
    /\ translate /\ OnlyMadeAndDestroyed /\ LastMadeFirstDestroyed
    /\ Len(hist) = 4
    /\ hist[1].op = "ctor" /\ hist[2].op = "ctor"
    /\ hist[3].op = "dtor" /\ hist[3].g = hist[2].g
    /\ hist[4].op = "ctor"
    /\ guards[hist[1].g].st = "alive" /\ guards[hist[2].g].st = "dead"
    /\ BothRedirected

(***************************************************************************)
(* Claims about guards in a process that writes to its streams and may     *)
(* have redirected one of them itself (StreamSpec).                        *)
(***************************************************************************)
\* the buffer the stream had before the operation e
SinkBefore(e, stream) == IF stream = "cout" THEN e.cout ELSE e.cerr

\* the buffer the guard g remembers for the stream
Remembered(g, stream) ==
    IF stream = "cout" THEN guards[g].m_coutBuf ELSE guards[g].m_cerrBuf

\* C14: on a translating platform, for each stream whose buffer a
\* construction replaces, the call before the rdbuf() that replaces it is
\* pubsync() on the buffer the stream had before the construction; when the
\* construction returns the guard remembers exactly that buffer, and that
\* buffer holds no unflushed byte (flushing taken to succeed).
C14_FlushThenReplace ==
    translate =>
        /\ \A i \in 1..Len(hist) : \A k \in 1..Len(hist[i].calls) :
               (hist[i].op = "ctor" /\ hist[i].calls[k][1] = "rdbuf") =>
                   /\ k > 1
                   /\ hist[i].calls[k - 1][1] = "pubsync"
                   /\ hist[i].calls[k - 1][2]
                          = SinkBefore(hist[i], hist[i].calls[k][2])
        /\ \A stream \in {"cout", "cerr"} :
               (Len(hist) >= 1 /\ Ago(0).op = "ctor" /\ Replaces(Ago(0), stream)) =>
                   /\ Remembered(Ago(0).g, stream) = SinkBefore(Ago(0), stream)
                   /\ ~dirty[SinkBefore(Ago(0), stream)]

C14_Witness ==
    /\ translate /\ Len(hist) >= 1 /\ Ago(0).op = "ctor"
    /\ Ago(0).calls = <<<<"prepare_console">>,
                        <<"pubsync", CoutBuf, TRUE>>, <<"rdbuf", "cout", 3>>,
                        <<"pubsync", CerrBuf, TRUE>>, <<"rdbuf", "cerr", 4>>>>
    /\ guards[Ago(0).g].m_coutBuf = CoutBuf /\ guards[Ago(0).g].m_cerrBuf = CerrBuf
    /\ ~dirty[CoutBuf] /\ ~dirty[CerrBuf]

Sink(stream) == IF stream = "cout" THEN cout ELSE cerr

Other(stream) == IF stream = "cout" THEN "cerr" ELSE "cout"

WideOf(stream) == IF stream = "cout" THEN "wcout" ELSE "wcerr"

\* the operation e has installed a new decoder, wrapping the stream's wide
\* counterpart, on the stream
InstallsNew(e, stream) ==
    \E k \in 1..Len(e.calls) :
        /\ e.calls[k][1] = "rdbuf" /\ e.calls[k][2] = stream
        /\ IsDecoder(decoders, e.calls[k][3])
        /\ e.calls[k][3] # e.cout /\ e.calls[k][3] # e.cerr
        /\ decoders[e.calls[k][3] - CerrBuf] = WideOf(stream)

\* C15: a guard constructed on a translating platform while stream a has a
\* decoder and the other stream b has none installs a new decoder on b only
\* and remembers the buffer of b only; neither its construction nor its
\* destruction changes the buffer of a.
C15_StreamsIndependent ==
    translate =>
        \A i \in 1..Len(hist) : \A a \in {"cout", "cerr"} :
            LET e == hist[i]
                b == Other(a)
            IN  (e.op = "ctor" /\ IsDecoder(decoders, SinkBefore(e, a))
                     /\ ~IsDecoder(decoders, SinkBefore(e, b))) =>
                    /\ ~Replaces(e, a)
                    /\ InstallsNew(e, b)
                    /\ i = Len(hist) =>
                           /\ Sink(a) = SinkBefore(e, a)
                           /\ IsDecoder(decoders, Sink(b)) /\ Sink(b) # Sink(a)
                           /\ Remembered(e.g, a) = NULL
                           /\ Remembered(e.g, b) = SinkBefore(e, b)
                    /\ \A j \in (i + 1)..Len(hist) :
                           (hist[j].op = "dtor" /\ hist[j].g = e.g) =>
                               /\ ~Replaces(hist[j], a)
                               /\ j = Len(hist) => Sink(a) = SinkBefore(hist[j], a)

C15_Witness ==
    /\ translate /\ Len(hist) = 2
    /\ hist[1].op = "ctor" /\ Ago(0).op = "dtor" /\ Ago(0).g = hist[1].g
    /\ IsDecoder(decoders, hist[1].cout) /\ hist[1].cerr = CerrBuf
    /\ InstallsNew(hist[1], "cerr") /\ ~Replaces(hist[1], "cout")
    /\ Ago(0).calls = <<<<"rdbuf", "cerr", CerrBuf>>>>
    /\ cout = hist[1].cout /\ cerr = CerrBuf

(***************************************************************************)
(* Claims about threads constructing guards at the same time (ThreadSpec). *)
(***************************************************************************)
\* C13: when threads construct their first guards at the same time on a
\* translating platform, prepare_console runs exactly once however their
\* steps interleave: never twice, and once by the time they are all done.
C13_PreparedOnceConcurrently ==
    translate =>
        /\ console <= 1
        /\ (\A t \in Threads : pc[t] = "done") => console = 1

====
